---- MODULE Spec2Model ----
(***************************************************************************)
(* Model of src/traffic_generator.py: the discovery client, the per-task   *)
(* traffic dispatcher and the cycle runner (run_once / run_continuous).    *)
(*                                                                         *)
(* Python strings that the code transforms (state.lower(), task.upper(),   *)
(* model_name.lower()) are sequences of one-character strings wrapped in a *)
(* value record, so that None and str are distinguishable and the case     *)
(* conversions are computed character by character.                        *)
(***************************************************************************)
EXTENDS Integers, Sequences, FiniteSets, TLC

VARIABLES mode, interval, pc, svc, endpoints, idx, success_count, trace, last,
          summary, exit, prev, twin

vars == <<mode, interval, pc, svc, endpoints, idx, success_count, trace, last,
          summary, exit, prev, twin>>

(* ------------------------------ bounds -------------------------------- *)

\* Longest directory listing the service returns in one response.
MaxEndpoints == 3

(* --------------------------- Python values ---------------------------- *)

Str(s) == [type |-> "str", val |-> s]

None == [type |-> "NoneType", val |-> <<>>]

LowerChars == <<"a","b","c","d","e","f","g","h","i","j","k","l","m",
                "n","o","p","q","r","s","t","u","v","w","x","y","z">>

UpperChars == <<"A","B","C","D","E","F","G","H","I","J","K","L","M",
                "N","O","P","Q","R","S","T","U","V","W","X","Y","Z">>

Range(f) == { f[i] : i \in DOMAIN f }

UpperMap ==
    [c \in Range(LowerChars) |-> UpperChars[CHOOSE i \in 1..26 : LowerChars[i] = c]]

LowerMap ==
    [c \in Range(UpperChars) |-> LowerChars[CHOOSE i \in 1..26 : UpperChars[i] = c]]

\* letters change case, every other character stays
UpperChar(c) == IF c \in DOMAIN UpperMap THEN UpperMap[c] ELSE c

LowerChar(c) == IF c \in DOMAIN LowerMap THEN LowerMap[c] ELSE c

\* str.upper() / str.lower() on the characters of a string
StrUpper(s) == [i \in 1..Len(s) |-> UpperChar(s[i])]

StrLower(s) == [i \in 1..Len(s) |-> LowerChar(s[i])]

\* `sub in s` for strings
Contains(s, sub) ==
    \E k \in 0..(Len(s) - Len(sub)) : SubSeq(s, k + 1, k + Len(sub)) = sub

(* results of a call: a normal return, an Exception, a KeyboardInterrupt *)

Return(v, sent, received) ==
    [kind |-> "return", value |-> v, sent |-> sent, received |-> received]

Raise(sent, received) ==
    [kind |-> "raise", value |-> FALSE, sent |-> sent, received |-> received]

Interrupt(sent, received) ==
    [kind |-> "interrupt", value |-> FALSE, sent |-> sent, received |-> received]

(* ------------------------- string constants --------------------------- *)

s_running == <<"r","u","n","n","i","n","g">>

s_loaded == <<"l","o","a","d","e","d">>

TEXT_GENERATION == <<"T","E","X","T","_","G","E","N","E","R","A","T","I","O","N">>

TEXT_TO_TEXT_GENERATION ==
    <<"T","E","X","T","_","T","O","_">> \o TEXT_GENERATION

EMBED == <<"E","M","B","E","D">>

RANK == <<"R","A","N","K">>

IMAGE_TEXT_TO_TEXT ==
    <<"I","M","A","G","E","_","T","E","X","T","_","T","O","_","T","E","X","T">>

OBJECT_DETECTION ==
    <<"O","B","J","E","C","T","_","D","E","T","E","C","T","I","O","N">>

SPEECH_TO_TEXT == <<"S","P","E","E","C","H","_","T","O","_","T","E","X","T">>

TEXT_TO_SPEECH == <<"T","E","X","T","_","T","O","_","S","P","E","E","C","H">>

INFERENCE == <<"I","N","F","E","R","E","N","C","E">>

s_parse == <<"p","a","r","s","e">>

(* -------------------------- discovery client -------------------------- *)

\* EndpointInfo(...) built from one directory record (field-by-field copy)
EndpointInfo(ep) ==
    [name |-> ep.name, namespace |-> ep.namespace, url |-> ep.url,
     state |-> ep.state, api_standard |-> ep.api_standard, task |-> ep.task,
     model_name |-> ep.model_name, has_chat_template |-> ep.has_chat_template]

\* variant: the state is compared without lower-casing it
IsActiveState_CaseSensitive(state) == state.val \in {s_running, s_loaded}

\* the active-state test of the loop; ep.state.lower() needs a str
IsActiveState(state) == StrLower(state.val) \in {s_running, s_loaded}

RECURSIVE DiscoverLoop_KeepsCollected(_, _, _)
\* variant: a record that cannot be converted ends the loop with the
\* endpoints collected so far
DiscoverLoop_KeepsCollected(recs, i, acc) ==
    IF i > Len(recs) THEN [kind |-> "return", value |-> acc]
    ELSE IF recs[i].state.type # "str" THEN [kind |-> "return", value |-> acc]
    ELSE IF IsActiveState(recs[i].state)
         THEN DiscoverLoop_KeepsCollected(recs, i + 1, Append(acc, EndpointInfo(recs[i])))
         ELSE DiscoverLoop_KeepsCollected(recs, i + 1, acc)

RECURSIVE DiscoverLoop(_, _, _)
\* for ep in response.endpoints: ... endpoints.append(endpoint_info)
DiscoverLoop(recs, i, acc) ==
    IF i > Len(recs) THEN [kind |-> "return", value |-> acc]
    ELSE IF recs[i].state.type # "str" THEN [kind |-> "raise", value |-> <<>>]
    ELSE IF IsActiveState(recs[i].state)
         THEN DiscoverLoop(recs, i + 1, Append(acc, EndpointInfo(recs[i])))
         ELSE DiscoverLoop(recs, i + 1, acc)

\* body of the try block: the service call, then the loop
DiscoverTry(s) ==
    CASE s.kind = "ok"        -> DiscoverLoop(s.endpoints, 1, <<>>)
      [] s.kind = "raise"     -> [kind |-> "raise", value |-> <<>>]
      [] s.kind = "interrupt" -> [kind |-> "interrupt", value |-> <<>>]

\* variant: the exception of the try block is not caught
discover_endpoints_Uncaught(s) == DiscoverTry(s)

\* except Exception: return []
discover_endpoints(s) ==
    LET r == DiscoverTry(s)
    IN  IF r.kind = "raise" THEN [kind |-> "return", value |-> <<>>] ELSE r

(* -------------------- transports (external answers) ------------------- *)

Body(json, has_data, data, has_choices, choices) ==
    [json |-> json, has_data |-> has_data, data |-> data,
     has_choices |-> has_choices, choices |-> choices]

\* body of an error answer: not a JSON document
ErrorBody == Body(FALSE, FALSE, <<>>, FALSE, <<>>)

\* one element of a `data` array, with or without its `embedding` key
DataItems == { [has_embedding |-> TRUE, embedding |-> <<1, 2>>],
               [has_embedding |-> FALSE, embedding |-> <<>>] }

\* one element of a `choices` array, with or without its message/text
Choices == { [has_payload |-> TRUE, content |-> "text"],
             [has_payload |-> TRUE, content |-> ""],
             [has_payload |-> FALSE, content |-> ""] }

\* a well-formed answer of either family
FullBody ==
    Body(TRUE, TRUE, <<[has_embedding |-> TRUE, embedding |-> <<1, 2>>]>>,
         TRUE, <<[has_payload |-> TRUE, content |-> "text"]>>)

\* bodies an endpoint may answer with: not JSON, an empty JSON object,
\* `data` empty or with one element, `choices` empty or with one element
OkBodies ==
    { ErrorBody, FullBody,
      Body(TRUE, FALSE, <<>>, FALSE, <<>>),
      Body(TRUE, TRUE, <<>>, FALSE, <<>>),
      Body(TRUE, FALSE, <<>>, TRUE, <<>>) }
    \cup { Body(TRUE, TRUE, <<d>>, FALSE, <<>>) : d \in DataItems }
    \cup { Body(TRUE, FALSE, <<>>, TRUE, <<c>>) : c \in Choices }

Answer(kind, code, body) == [kind |-> kind, code |-> code, body |-> body]

\* what one HTTP exchange gives back: a response, an exception
\* (connection error, timeout), or the operator's interrupt
Answers ==
    { Answer("status", 200, b) : b \in OkBodies }
    \cup { Answer("status", 201, FullBody), Answer("status", 500, ErrorBody),
           Answer("raise", 0, ErrorBody), Answer("interrupt", 0, ErrorBody) }

\* the answers met inside a cycle
CycleAnswers ==
    { Answer("status", 200, FullBody), Answer("status", 200, ErrorBody),
      Answer("status", 500, ErrorBody),
      Answer("raise", 0, ErrorBody), Answer("interrupt", 0, ErrorBody) }

\* outcomes of random.choice: the index drawn, reduced to the list's length
Picks == 0..4

\* what the outside world gives to one dispatch: the answers to its (at
\* most two) exchanges, in the order they are made, and the random draw
Envs == [answers : [1..2 -> Answers], pick : Picks]

CycleEnvs == [answers : [1..2 -> CycleAnswers], pick : {0}]

\* client.chat.completions.create / client.completions.create: the client
\* raises on an error status and on a body it cannot parse, and otherwise
\* returns the parsed response (choices is None when the body has none)
ClientCreate(h) ==
    CASE h.kind = "raise"     -> [kind |-> "raise", present |-> FALSE, choices |-> <<>>]
      [] h.kind = "interrupt" -> [kind |-> "interrupt", present |-> FALSE, choices |-> <<>>]
      [] OTHER ->
           IF h.code >= 400 \/ ~ h.body.json
           THEN [kind |-> "raise", present |-> FALSE, choices |-> <<>>]
           ELSE [kind |-> "response", present |-> h.body.has_choices,
                 choices |-> h.body.choices]

(* ------------------------- traffic dispatcher ------------------------- *)

\* endpoint.url.rsplit('/', 2)[0] on a url given as its '/'-separated parts
BaseUrl(url) == SubSeq(url, 1, IF Len(url) > 2 THEN Len(url) - 2 ELSE 1)

\* a request handed to a transport; fields are the keys of its JSON body
Request(via, shape, target, payload) ==
    [via |-> via, shape |-> shape, target |-> target,
     fields |-> DOMAIN payload, payload |-> payload]

(* sample corpora *)

TEXT_GENERATION_PROMPTS ==
    << "What is machine learning?",
       "Explain the concept of neural networks in simple terms.",
       "Write a haiku about artificial intelligence.",
       "What are the benefits of cloud computing?",
       "Describe the difference between supervised and unsupervised learning." >>

CHAT_PROMPTS ==
    << <<[role |-> "user", content |-> "Hello! How are you?"]>>,
       <<[role |-> "user", content |-> "What can you help me with today?"]>>,
       <<[role |-> "user", content |-> "Tell me a fun fact about computers."]>>,
       <<[role |-> "user", content |-> "What is your purpose?"]>>,
       <<[role |-> "user", content |-> "Can you help me write some code?"]>> >>

EMBEDDING_TEXTS ==
    << "The quick brown fox jumps over the lazy dog",
       "Machine learning is transforming industries",
       "Cloud computing provides scalable infrastructure",
       "Artificial intelligence is advancing rapidly",
       "Data science combines statistics and programming" >>

RERANK_QUERIES ==
    << [query |-> "What is machine learning?",
        documents |-> << "Machine learning is a subset of artificial intelligence.",
                         "The weather today is sunny and warm.",
                         "Neural networks are inspired by biological neurons.",
                         "Pizza is a popular Italian food." >>],
       [query |-> "benefits of cloud computing",
        documents |-> << "Cloud computing offers scalability and flexibility.",
                         "Cats are popular pets around the world.",
                         "Cost savings are a major advantage of cloud services.",
                         "Mountains are formed by tectonic activity." >>] >>

VLM_PROMPTS ==
    << "Describe this image in detail.",
       "What do you see in this picture?",
       "What is the main subject of this image?" >>

PLACEHOLDER_IMAGE ==
    "iVBORw0KGgoAAAANSUhEUgAAAAEAAAABCAYAAAAfFcSJAAAADUlEQVR42mP8z8DwHwAFBQIAX8jx0gAAAABJRU5ErkJggg=="

\* random.choice(seq) for the draw r
Choice(seq, r) == seq[(r % Len(seq)) + 1]

\* max_tokens of the constructor (its default)
max_tokens == 50

(* request builders *)

\* variant: the chat request also carries a prompt string
ChatPayload_WithPrompt(ep, r) ==
    [model |-> ep.model_name, messages |-> Choice(CHAT_PROMPTS, r),
     prompt |-> Choice(TEXT_GENERATION_PROMPTS, r),
     max_tokens |-> max_tokens, temperature |-> "0.7"]

ChatPayload(ep, r) ==
    [model |-> ep.model_name, messages |-> Choice(CHAT_PROMPTS, r),
     max_tokens |-> max_tokens, temperature |-> "0.7"]

CompletionPayload(ep, r) ==
    [model |-> ep.model_name, prompt |-> Choice(TEXT_GENERATION_PROMPTS, r),
     max_tokens |-> max_tokens, temperature |-> "0.7"]

EmbeddingPayload(ep, r) ==
    [model |-> ep.model_name, input |-> Choice(EMBEDDING_TEXTS, r),
     input_type |-> "query"]

RerankPayload(ep, r) ==
    LET sample == Choice(RERANK_QUERIES, r)
    IN  [model |-> ep.model_name, query |-> [text |-> sample.query],
         passages |-> [i \in 1..Len(sample.documents) |->
                          [text |-> sample.documents[i]]]]

RerankAltPayload(ep, r) ==
    LET sample == Choice(RERANK_QUERIES, r)
    IN  [model |-> ep.model_name, query |-> sample.query,
         documents |-> sample.documents]

ImagePart ==
    [type |-> "image_url",
     image_url |-> [url |-> <<"data:image/png;base64,", PLACEHOLDER_IMAGE>>]]

TextPart(prompt) == [type |-> "text", text |-> prompt]

\* the messages of the vision-language request
VlmMessages(is_parse_model, r) ==
    IF is_parse_model
    THEN <<[role |-> "user", content |-> <<ImagePart>>]>>
    ELSE <<[role |-> "user",
            content |-> <<ImagePart, TextPart(Choice(VLM_PROMPTS, r))>>]>>

VlmPayload(ep, is_parse_model, r) ==
    [model |-> ep.model_name, messages |-> VlmMessages(is_parse_model, r),
     max_tokens |-> max_tokens]

\* variant: a bare except, which also takes the operator's interrupt
CatchException_Bare(r) ==
    IF r.kind \in {"raise", "interrupt"} THEN Return(FALSE, r.sent, r.received) ELSE r

\* except Exception as e: ... return False
CatchException(r) == IF r.kind = "raise" THEN Return(FALSE, r.sent, r.received) ELSE r

\* variant: a present choices list must hold a choice
ChoicesReadable_NeedsChoice(c) ==
    ~ c.present \/ (Len(c.choices) > 0 /\ c.choices[1].has_payload)

\* `response.choices and response.choices[0].<payload>` raises when the
\* first choice has no message/text
ChoicesReadable(c) ==
    ~ (c.present /\ Len(c.choices) > 0) \/ c.choices[1].has_payload

TextTry(ep, env) ==
    LET req == IF ep.has_chat_template
               THEN Request("chat.completions", "chat", BaseUrl(ep.url),
                            ChatPayload(ep, env.pick))
               ELSE Request("completions", "completion", BaseUrl(ep.url),
                            CompletionPayload(ep, env.pick))
        h == env.answers[1]
        c == ClientCreate(h)
    IN  CASE c.kind = "raise"     -> Raise(<<req>>, <<h>>)
          [] c.kind = "interrupt" -> Interrupt(<<req>>, <<h>>)
          [] OTHER ->
               IF ChoicesReadable(c) THEN Return(TRUE, <<req>>, <<h>>)
                                     ELSE Raise(<<req>>, <<h>>)

generate_text_traffic(ep, env) == CatchException(TextTry(ep, env))

\* variant: an empty `data` array counts as a failure
EmbeddingOutcome_EmptyFails(req, h) ==
    IF h.code = 200
    THEN IF ~ h.body.json THEN Raise(<<req>>, <<h>>)
         ELSE IF h.body.has_data
              THEN IF Len(h.body.data) = 0 THEN Return(FALSE, <<req>>, <<h>>)
                   ELSE IF h.body.data[1].has_embedding
                        THEN Return(TRUE, <<req>>, <<h>>)
                        ELSE Raise(<<req>>, <<h>>)
              ELSE Return(TRUE, <<req>>, <<h>>)
    ELSE Return(FALSE, <<req>>, <<h>>)

\* the status/body test of the embedding path
EmbeddingOutcome(req, h) ==
    IF h.code = 200
    THEN IF ~ h.body.json THEN Raise(<<req>>, <<h>>)
         ELSE IF h.body.has_data /\ Len(h.body.data) > 0
              THEN IF h.body.data[1].has_embedding
                   THEN Return(TRUE, <<req>>, <<h>>)
                   ELSE Raise(<<req>>, <<h>>)
              ELSE Return(TRUE, <<req>>, <<h>>)
    ELSE Return(FALSE, <<req>>, <<h>>)

\* variant: a rejected embedding request is sent once more
EmbeddingTry_Retry(ep, env) ==
    LET req == Request("post", "embedding", ep.url, EmbeddingPayload(ep, env.pick))
        h == env.answers[1]
        h2 == env.answers[2]
    IN  CASE h.kind = "raise"     -> Raise(<<req>>, <<h>>)
          [] h.kind = "interrupt" -> Interrupt(<<req>>, <<h>>)
          [] h.code = 200         -> EmbeddingOutcome(req, h)
          [] OTHER ->
               CASE h2.kind = "raise"     -> Raise(<<req, req>>, <<h, h2>>)
                 [] h2.kind = "interrupt" -> Interrupt(<<req, req>>, <<h, h2>>)
                 [] OTHER ->
                      [EmbeddingOutcome(req, h2) EXCEPT !.sent = <<req, req>>,
                                                        !.received = <<h, h2>>]

EmbeddingTry(ep, env) ==
    LET req == Request("post", "embedding", ep.url, EmbeddingPayload(ep, env.pick))
        h == env.answers[1]
    IN  CASE h.kind = "raise"     -> Raise(<<req>>, <<h>>)
          [] h.kind = "interrupt" -> Interrupt(<<req>>, <<h>>)
          [] OTHER                -> EmbeddingOutcome(req, h)

generate_embedding_traffic(ep, env) == CatchException(EmbeddingTry(ep, env))

\* variant: the alternate attempt accepts any 2xx status
RerankAlternate_Any2xx(ep, env, req1, h1) ==
    LET req2 == Request("post", "rerank_alt", ep.url, RerankAltPayload(ep, env.pick))
        h2 == env.answers[2]
    IN  CASE h2.kind = "raise"     -> Raise(<<req1, req2>>, <<h1, h2>>)
          [] h2.kind = "interrupt" -> Interrupt(<<req1, req2>>, <<h1, h2>>)
          [] OTHER -> Return(h2.code < 300, <<req1, req2>>, <<h1, h2>>)

\* the else branch: the alternate (OpenAI-like) payload
RerankAlternate(ep, env, req1, h1) ==
    LET req2 == Request("post", "rerank_alt", ep.url, RerankAltPayload(ep, env.pick))
        h2 == env.answers[2]
    IN  CASE h2.kind = "raise"     -> Raise(<<req1, req2>>, <<h1, h2>>)
          [] h2.kind = "interrupt" -> Interrupt(<<req1, req2>>, <<h1, h2>>)
          [] OTHER -> Return(h2.code = 200, <<req1, req2>>, <<h1, h2>>)

\* variant: a rejected primary payload is final, no alternate is tried
RerankTry_NoFallback(ep, env) ==
    LET req1 == Request("post", "rerank_primary", ep.url, RerankPayload(ep, env.pick))
        h1 == env.answers[1]
    IN  CASE h1.kind = "raise"     -> Raise(<<req1>>, <<h1>>)
          [] h1.kind = "interrupt" -> Interrupt(<<req1>>, <<h1>>)
          [] OTHER -> Return(h1.code = 200, <<req1>>, <<h1>>)

RerankTry(ep, env) ==
    LET req1 == Request("post", "rerank_primary", ep.url, RerankPayload(ep, env.pick))
        h1 == env.answers[1]
    IN  CASE h1.kind = "raise"     -> Raise(<<req1>>, <<h1>>)
          [] h1.kind = "interrupt" -> Interrupt(<<req1>>, <<h1>>)
          [] OTHER ->
               IF h1.code = 200 THEN Return(TRUE, <<req1>>, <<h1>>)
                                ELSE RerankAlternate(ep, env, req1, h1)

\* variant: a primary attempt that raised is followed by the alternate one
generate_rerank_traffic_Fallback(ep, env) ==
    LET r == RerankTry(ep, env)
    IN  IF r.kind = "raise" /\ Len(r.sent) = 1
        THEN CatchException(RerankAlternate(ep, env, r.sent[1], r.received[1]))
        ELSE CatchException(r)

generate_rerank_traffic(ep, env) == CatchException(RerankTry(ep, env))

\* variant: the model name is searched for "parse" in lower case only
VlmTry_CaseSensitive(ep, env) ==
    IF ep.model_name.type # "str" THEN Raise(<<>>, <<>>)
    ELSE
    LET is_parse_model == Contains(ep.model_name.val, s_parse)
        req == Request("chat.completions",
                       IF is_parse_model THEN "vlm_image_only" ELSE "vlm_image_text",
                       BaseUrl(ep.url), VlmPayload(ep, is_parse_model, env.pick))
        h == env.answers[1]
        c == ClientCreate(h)
    IN  CASE c.kind = "raise"     -> Raise(<<req>>, <<h>>)
          [] c.kind = "interrupt" -> Interrupt(<<req>>, <<h>>)
          [] OTHER ->
               IF ChoicesReadable(c) THEN Return(TRUE, <<req>>, <<h>>)
                                     ELSE Raise(<<req>>, <<h>>)

VlmTry(ep, env) ==
    IF ep.model_name.type # "str" THEN Raise(<<>>, <<>>)
    ELSE
    LET is_parse_model == Contains(StrLower(ep.model_name.val), s_parse)
        req == Request("chat.completions",
                       IF is_parse_model THEN "vlm_image_only" ELSE "vlm_image_text",
                       BaseUrl(ep.url), VlmPayload(ep, is_parse_model, env.pick))
        h == env.answers[1]
        c == ClientCreate(h)
    IN  CASE c.kind = "raise"     -> Raise(<<req>>, <<h>>)
          [] c.kind = "interrupt" -> Interrupt(<<req>>, <<h>>)
          [] OTHER ->
               IF ChoicesReadable(c) THEN Return(TRUE, <<req>>, <<h>>)
                                     ELSE Raise(<<req>>, <<h>>)

generate_vlm_traffic(ep, env) == CatchException(VlmTry(ep, env))

\* tasks for which no request is sent and the outcome is True
SkippedTasks == {SPEECH_TO_TEXT, TEXT_TO_SPEECH, INFERENCE}

\* variant: an unrecognised task is skipped like the unsupported ones
DispatchOnTask_UnknownSkipped(task, ep, env) ==
    IF task \in {TEXT_GENERATION, TEXT_TO_TEXT_GENERATION}
    THEN generate_text_traffic(ep, env)
    ELSE IF task = EMBED THEN generate_embedding_traffic(ep, env)
    ELSE IF task = RANK THEN generate_rerank_traffic(ep, env)
    ELSE IF task = IMAGE_TEXT_TO_TEXT THEN generate_vlm_traffic(ep, env)
    ELSE IF task = OBJECT_DETECTION THEN generate_vlm_traffic(ep, env)
    ELSE Return(TRUE, <<>>, <<>>)

\* the if/elif chain on task = endpoint.task.upper()
DispatchOnTask(task, ep, env) ==
    IF task \in {TEXT_GENERATION, TEXT_TO_TEXT_GENERATION}
    THEN generate_text_traffic(ep, env)
    ELSE IF task = EMBED THEN generate_embedding_traffic(ep, env)
    ELSE IF task = RANK THEN generate_rerank_traffic(ep, env)
    ELSE IF task = IMAGE_TEXT_TO_TEXT THEN generate_vlm_traffic(ep, env)
    ELSE IF task = OBJECT_DETECTION THEN generate_vlm_traffic(ep, env)
    ELSE IF task \in SkippedTasks THEN Return(TRUE, <<>>, <<>>)
    ELSE Return(FALSE, <<>>, <<>>)

\* variant: the task is compared as written, without upper-casing it
GenerateTry_CaseSensitive(ep, env) ==
    IF ep.task.type # "str" THEN Raise(<<>>, <<>>)
    ELSE DispatchOnTask(ep.task.val, ep, env)

\* body of the try block; endpoint.task.upper() needs a str
GenerateTry(ep, env) ==
    IF ep.task.type # "str" THEN Raise(<<>>, <<>>)
    ELSE DispatchOnTask(StrUpper(ep.task.val), ep, env)

\* variant: the exception of the try block is not caught
generate_traffic_for_endpoint_Uncaught(ep, env) == GenerateTry(ep, env)

generate_traffic_for_endpoint(ep, env) == CatchException(GenerateTry(ep, env))

(* ------------------------- directory contents ------------------------- *)

Url == <<"https://host", "ep", "v1", "chat", "completions">>

Rec(name, state, task, model_name, chat) ==
    [name |-> name, namespace |-> "serving-default", url |-> Url,
     state |-> state, api_standard |-> "openai", task |-> task,
     model_name |-> model_name, has_chat_template |-> chat]

s_llm == <<"l","l","m">>

\* records the directory service may list: active in several letter cases,
\* inactive, without a state, and tasks of every dispatch family
Records ==
    { Rec("rank", Str(<<"R","u","n","n","i","n","g">>), Str(RANK), Str(s_llm), FALSE),
      Rec("embed", Str(<<"L","O","A","D","E","D">>), Str(StrLower(EMBED)), Str(s_llm), FALSE),
      Rec("text", Str(s_loaded), Str(<<"T","e","x","t","_","G","e","n","e","r","a","t","i","o","n">>),
          Str(s_llm), TRUE),
      Rec("speech", Str(s_running), Str(StrLower(SPEECH_TO_TEXT)), Str(s_llm), FALSE),
      Rec("foo", Str(s_running), Str(<<"F","O","O">>), Str(s_llm), FALSE),
      Rec("notask", Str(s_running), None, Str(s_llm), FALSE),
      Rec("vlm", Str(s_running), Str(StrLower(OBJECT_DETECTION)), None, FALSE),
      Rec("stopped", Str(<<"S","t","o","p","p","e","d">>), Str(RANK), Str(s_llm), FALSE),
      Rec("nostate", None, Str(EMBED), Str(s_llm), FALSE) }

RECURSIVE SeqsUpTo(_, _)
\* all sequences over S of length at most n
SeqsUpTo(S, n) ==
    IF n = 0 THEN {<<>>}
    ELSE LET shorter == SeqsUpTo(S, n - 1)
         IN  shorter \cup { Append(q, x) : q \in shorter, x \in S }

\* what serving_list_endpoints gives back: a listing, an exception
\* (transport or service error) or the operator's interrupt
ServiceResults ==
    { [kind |-> "ok", endpoints |-> q] : q \in SeqsUpTo(Records, MaxEndpoints) }
    \cup { [kind |-> k, endpoints |-> <<>>] : k \in {"raise", "interrupt"} }

(* ----------------------------- cycle runner --------------------------- *)

Event(op, i, r) == [op |-> op, i |-> i, nsent |-> Len(r.sent), ok |-> r.value]

PauseEvent(i) == [op |-> "pause", i |-> i, nsent |-> 0, ok |-> FALSE]

\* variant: every dispatch is counted
NextCount_Always(count, ok) == count + 1

\* if <outcome>: success_count += 1
NextCount(count, ok) == IF ok THEN count + 1 ELSE count

\* where an interrupt raised inside the cycle ends: the shutdown path of
\* run_continuous, or out of run_once
InterruptExit == IF mode = "continuous" THEN "shutdown" ELSE "escaped"

\* the --interval values: a negative one, which argparse and the
\* constructor accept as they do any int, and the default
Intervals == {-1, 60}

\* time.sleep(seconds): raises ValueError for a negative length
time_sleep(seconds) == IF seconds < 0 THEN "raise" ELSE "slept"

\* variant: an empty discovery falls back on the list of the cycle before
CycleEndpoints_Stale(old, found) == IF found = <<>> THEN old ELSE found

\* endpoints = self.discover_endpoints(namespace): the list of this cycle
CycleEndpoints(old, found) == found

\* variant: the loop of run_continuous returns after a cycle, as run_once does
EndOfCycle_Returns(m) == [pc |-> "done", exit |-> "returned"]

\* what follows the cycle: run_once returns, run_continuous logs and goes
\* to time.sleep(self.interval)
EndOfCycle(m) ==
    IF m = "continuous" THEN [pc |-> "interval", exit |-> "running"]
                        ELSE [pc |-> "done", exit |-> "returned"]

\* the names of the endpoints whose dispatch returned in the events t
DispatchedNames(eps, t) ==
    { eps[t[k].i].name : k \in { j \in 1..Len(t) : t[j].op = "dispatch" } }

Init ==
    /\ mode \in {"once", "continuous"}
    /\ interval \in IF mode = "once" THEN {60} ELSE Intervals
    /\ pc = "discover"
    /\ svc = <<>>
    /\ endpoints = <<>>
    /\ idx = 0
    /\ success_count = 0
    /\ trace = <<>>
    /\ last = <<>>
    /\ summary = <<>>
    /\ exit = "running"
    /\ prev = {}
    /\ twin = <<>>

\* endpoints = self.discover_endpoints(namespace); if not endpoints: ...
\* for the directory answers of the set results
DiscoverFrom(results) ==
    /\ pc = "discover"
    /\ \E s \in results :
         LET r == discover_endpoints(s)
             found == CycleEndpoints(endpoints, r.value)
         IN  /\ svc' = <<s>>
             /\ trace' = <<>>
             /\ last' = <<>>
             /\ summary' = <<>>
             /\ IF r.kind = "interrupt"
                THEN /\ pc' = "done" /\ exit' = InterruptExit /\ idx' = 0
                     /\ UNCHANGED <<endpoints, success_count>>
                ELSE IF r.kind = "raise"
                THEN /\ idx' = 0
                     /\ UNCHANGED <<endpoints, success_count>>
                     /\ IF mode = "continuous"
                        THEN pc' = "error_interval" /\ exit' = exit
                        ELSE pc' = "done" /\ exit' = "crashed"
                ELSE /\ endpoints' = found
                     /\ IF found = <<>>
                        THEN /\ idx' = 0
                             /\ UNCHANGED success_count
                             /\ pc' = EndOfCycle(mode).pc
                             /\ exit' = EndOfCycle(mode).exit
                        ELSE /\ success_count' = 0
                             /\ pc' = "dispatch" /\ idx' = 1 /\ exit' = exit
    /\ UNCHANGED <<mode, interval, prev, twin>>

Discover == DiscoverFrom(ServiceResults)

\* if self.generate_traffic_for_endpoint(endpoint): success_count += 1
Dispatch ==
    /\ pc = "dispatch"
    /\ \E env \in CycleEnvs :
         LET r == generate_traffic_for_endpoint(endpoints[idx], env)
         IN  /\ last' = <<[ep |-> endpoints[idx], res |-> r]>>
             /\ IF r.kind = "interrupt"
                THEN /\ trace' = Append(trace, Event("interrupted", idx, r))
                     /\ pc' = "done" /\ exit' = InterruptExit
                     /\ UNCHANGED success_count
                ELSE IF r.kind = "raise"
                THEN /\ trace' = Append(trace, Event("raised", idx, r))
                     /\ UNCHANGED success_count
                     /\ IF mode = "continuous"
                        THEN pc' = "error_interval" /\ exit' = exit
                        ELSE pc' = "done" /\ exit' = "crashed"
                ELSE /\ trace' = Append(trace, Event("dispatch", idx, r))
                     /\ success_count' = NextCount(success_count, r.value)
                     /\ pc' = "pause" /\ exit' = exit
    /\ UNCHANGED <<mode, interval, svc, endpoints, idx, summary, prev, twin>>

\* time.sleep(2), then the next endpoint or the summary line after the loop
Pause ==
    /\ pc = "pause"
    /\ \E k \in {time_sleep(2), "interrupt"} :
         IF k = "interrupt"
         THEN /\ pc' = "done" /\ exit' = InterruptExit
              /\ UNCHANGED <<idx, trace, summary>>
         ELSE /\ trace' = Append(trace, PauseEvent(idx))
              /\ IF idx < Len(endpoints)
                 THEN /\ idx' = idx + 1
                      /\ pc' = "dispatch"
                      /\ UNCHANGED <<summary, exit>>
                 ELSE /\ summary' = <<[successes |-> success_count,
                                      total |-> Len(endpoints)]>>
                      /\ UNCHANGED idx
                      /\ pc' = EndOfCycle(mode).pc
                      /\ exit' = EndOfCycle(mode).exit
    /\ UNCHANGED <<mode, interval, svc, endpoints, success_count, last, prev, twin>>

\* time.sleep(self.interval): after a cycle (pc = "interval", inside the
\* try), or in the except Exception handler (pc = "error_interval", outside
\* it).  The locals of the finished cycle are dead until the next discovery
\* assigns them: with forget they are cleared here, without it they are
\* kept and the names dispatched in the finished cycle are remembered.
IntervalStep(forget) ==
    /\ pc \in {"interval", "error_interval"}
    /\ \E k \in {time_sleep(interval), "interrupt"} :
         IF k = "interrupt"
         THEN /\ pc' = "done"
              /\ exit' = IF pc = "interval" THEN "shutdown" ELSE "escaped"
              /\ UNCHANGED <<svc, endpoints, idx, success_count, trace, last,
                             summary, prev>>
         ELSE IF k = "raise"
         THEN /\ IF pc = "interval"
                 THEN pc' = "error_interval" /\ exit' = exit
                 ELSE pc' = "done" /\ exit' = "crashed"
              /\ UNCHANGED <<svc, endpoints, idx, success_count, trace, last,
                             summary, prev>>
         ELSE /\ pc' = "discover" /\ exit' = exit
              /\ IF forget
                 THEN /\ svc' = <<>> /\ endpoints' = <<>> /\ idx' = 0
                      /\ success_count' = 0 /\ trace' = <<>> /\ last' = <<>>
                      /\ summary' = <<>>
                      /\ UNCHANGED prev
                 ELSE /\ prev' = DispatchedNames(endpoints, trace)
                      /\ UNCHANGED <<svc, endpoints, idx, success_count, trace,
                                     last, summary>>
    /\ UNCHANGED <<mode, interval, twin>>

IntervalSleep == IntervalStep(TRUE)

Next == Discover \/ Dispatch \/ Pause \/ IntervalSleep

Spec == Init /\ [][Next]_vars

(* ------------- run_continuous, every call of which comes to an end ------------- *)

\* a directory of three records, two of them active
LiveRecords == { r \in Records : r.name \in {"rank", "text", "stopped"} }

LiveServiceResults ==
    { [kind |-> "ok", endpoints |-> q] : q \in SeqsUpTo(LiveRecords, 2) }
    \cup { [kind |-> k, endpoints |-> <<>>] : k \in {"raise", "interrupt"} }

InitLive == Init /\ mode = "continuous"

DiscoverLive == DiscoverFrom(LiveServiceResults)

NextLive == DiscoverLive \/ Dispatch \/ Pause \/ IntervalSleep

\* the loop is sequential code: the call in progress returns, raises or is
\* interrupted, and the next statement runs
SpecLive == InitLive /\ [][NextLive]_vars /\ WF_vars(NextLive)

(* ------------- run_continuous with its locals kept across iterations ------------- *)

\* time.sleep(self.interval) with `endpoints` and `success_count` left as
\* the finished cycle set them, as the loop's locals are
IntervalSleepKeep == IntervalStep(FALSE)

NextCarry == DiscoverLive \/ Dispatch \/ Pause \/ IntervalSleepKeep

SpecCarry == InitLive /\ [][NextCarry]_vars

(* ------------- run_once and one iteration of run_continuous, side by side ------------- *)

\* one call or log line of a cycle: the discovery call, a dispatch (of
\* endpoint i, with its outcome), a pause or sleep (of n seconds), the
\* summary line (n successes out of i)
Step(op, i, n, ok) == [op |-> op, i |-> i, n |-> n, ok |-> ok]

\* answers that let the request return or raise
EquivAnswers == { a \in CycleAnswers : a.kind # "interrupt" }

\* a dispatch both of whose requests (if it makes two) meet the same answer
EquivEnvs == { [answers |-> [k \in 1..2 |-> a], pick |-> 0] : a \in EquivAnswers }

\* directory outcomes other than the operator's interrupt
EquivServiceResults ==
    { [kind |-> "ok", endpoints |-> q] : q \in SeqsUpTo(LiveRecords, MaxEndpoints) }
    \cup { [kind |-> "raise", endpoints |-> <<>>] }

RECURSIVE OnceLoop(_, _, _, _, _)
\* run_once: for endpoint in endpoints: ... time.sleep(2), then the
\* "Cycle complete" line
OnceLoop(eps, envs, i, count, steps) ==
    IF i > Len(eps)
    THEN Append(steps, Step("summary", Len(eps), count, TRUE))
    ELSE LET ok == generate_traffic_for_endpoint(eps[i], envs[i]).value
         IN  OnceLoop(eps, envs, i + 1, IF ok THEN count + 1 ELSE count,
                      steps \o <<Step("dispatch", i, 0, ok), Step("pause", i, 2, TRUE)>>)

\* run_once(namespace) on directory outcome s and request answers envs
run_once(s, envs) ==
    LET eps == discover_endpoints(s).value
        steps == <<Step("discover", 0, 0, TRUE)>>
    IN  IF eps = <<>> THEN steps
        ELSE OnceLoop(eps, envs, 1, 0, steps)

RECURSIVE ContinuousLoop(_, _, _, _, _)
\* run_continuous: the for loop of the else branch and the "Traffic
\* generation cycle complete" line
ContinuousLoop(eps, envs, i, count, steps) ==
    IF i > Len(eps)
    THEN Append(steps, Step("summary", Len(eps), count, TRUE))
    ELSE LET ok == generate_traffic_for_endpoint(eps[i], envs[i]).value
         IN  ContinuousLoop(eps, envs, i + 1, IF ok THEN count + 1 ELSE count,
                            steps \o <<Step("dispatch", i, 0, ok), Step("pause", i, 2, TRUE)>>)

\* variant: an empty discovery goes straight to the next iteration
ContinuousIteration_NoSleepOnEmpty(s, envs, seconds) ==
    LET eps == discover_endpoints(s).value
        steps == <<Step("discover", 0, 0, TRUE)>>
    IN  IF eps = <<>> THEN steps
        ELSE Append(ContinuousLoop(eps, envs, 1, 0, steps),
                    Step("sleep", 0, seconds, TRUE))

\* the try body of run_continuous, once round: discovery, the if/else on
\* the list, then time.sleep(self.interval)
ContinuousIteration(s, envs, seconds) ==
    LET eps == discover_endpoints(s).value
        steps == <<Step("discover", 0, 0, TRUE)>>
        cycle == IF eps = <<>> THEN steps
                 ELSE ContinuousLoop(eps, envs, 1, 0, steps)
    IN  Append(cycle, Step("sleep", 0, seconds, TRUE))

InitEquiv ==
    /\ mode = "equiv"
    /\ interval \in Intervals
    /\ pc = "iterate"
    /\ svc = <<>>
    /\ endpoints = <<>>
    /\ idx = 0
    /\ success_count = 0
    /\ trace = <<>>
    /\ last = <<>>
    /\ summary = <<>>
    /\ exit = "running"
    /\ prev = {}
    /\ twin = <<>>

\* one iteration of run_continuous (in trace) and one call of run_once (in
\* twin) on the same directory outcome and the same request answers
Iterate ==
    /\ pc = "iterate"
    /\ \E s \in EquivServiceResults, envs \in [1..MaxEndpoints -> EquivEnvs] :
         /\ svc' = <<s>>
         /\ endpoints' = discover_endpoints(s).value
         /\ trace' = ContinuousIteration(s, envs, interval)
         /\ twin' = run_once(s, envs)
    /\ pc' = "compared"
    /\ UNCHANGED <<mode, interval, idx, success_count, last, summary, exit, prev>>

\* the loop comes round: the next iteration, and the next run_once call
Again ==
    /\ pc = "compared"
    /\ pc' = "iterate"
    /\ svc' = <<>> /\ endpoints' = <<>> /\ trace' = <<>> /\ twin' = <<>>
    /\ UNCHANGED <<mode, interval, idx, success_count, last, summary, exit, prev>>

NextEquiv == Iterate \/ Again

SpecEquiv == InitEquiv /\ [][NextEquiv]_vars

(* ------------- the dispatcher called on its own, per endpoint ---------- *)

KnownTasks ==
    { TEXT_GENERATION, TEXT_TO_TEXT_GENERATION, EMBED, RANK, IMAGE_TEXT_TO_TEXT,
      OBJECT_DETECTION, SPEECH_TO_TEXT, TEXT_TO_SPEECH, INFERENCE }

\* first letter kept, the rest lower-cased
Capitalised(s) == <<s[1]>> \o StrLower(SubSeq(s, 2, Len(s)))

\* task tags: every known one in three letter cases, unknown ones, the
\* empty string and a missing task
TaskValues ==
    { Str(t) : t \in KnownTasks }
    \cup { Str(StrLower(t)) : t \in KnownTasks }
    \cup { Str(Capitalised(t)) : t \in KnownTasks }
    \cup { Str(<<"F","O","O">>), Str(<<"r","a","n","k","e","r">>),
           Str(<<"E","M","B","E","D","_">>), Str(<<>>), None }

ModelNames ==
    { Str(s_llm), Str(<<"x","-","P","a","R","s","E","-","1">>), Str(s_parse), None }

EndpointUniverse ==
    { Rec("ep", Str(s_running), t, m, c) :
        t \in TaskValues, m \in ModelNames, c \in BOOLEAN }

InitDispatch ==
    /\ mode = "call"
    /\ interval = 60
    /\ prev = {}
    /\ twin = <<>>
    /\ pc = "call"
    /\ svc = <<>>
    /\ endpoints \in { <<ep>> : ep \in EndpointUniverse }
    /\ idx = 1
    /\ success_count = 0
    /\ trace = <<>>
    /\ last = <<>>
    /\ summary = <<>>
    /\ exit = "running"

\* one call of generate_traffic_for_endpoint(endpoint)
GenerateTrafficCall ==
    /\ pc = "call"
    /\ \E env \in Envs :
         LET r == generate_traffic_for_endpoint(endpoints[idx], env)
         IN  /\ last' = <<[ep |-> endpoints[idx], res |-> r]>>
             /\ trace' = Append(trace, Event("dispatch", idx, r))
             /\ success_count' = NextCount(success_count, r.value)
             /\ exit' = CASE r.kind = "interrupt" -> "escaped"
                          [] r.kind = "raise"     -> "crashed"
                          [] OTHER                -> "returned"
    /\ pc' = "returned"
    /\ UNCHANGED <<mode, interval, svc, endpoints, idx, summary, prev, twin>>

NextDispatch == GenerateTrafficCall

SpecDispatch == InitDispatch /\ [][NextDispatch]_vars

(* ------------- a cycle over endpoints of every task ------------- *)

\* a directory with one running record for each known task, one for a task
\* the dispatcher does not know and one without a task
TaskRecords ==
    { Rec("ep", Str(s_running), Str(t), Str(s_llm), FALSE) : t \in KnownTasks }
    \cup { r \in Records : r.name \in {"foo", "notask"} }

TaskServiceResults ==
    { [kind |-> "ok", endpoints |-> q] : q \in SeqsUpTo(TaskRecords, 2) }
    \cup { [kind |-> k, endpoints |-> <<>>] : k \in {"raise", "interrupt"} }

InitTasks == Init /\ mode = "once"

DiscoverTasks == DiscoverFrom(TaskServiceResults)

NextTasks == DiscoverTasks \/ Dispatch \/ Pause

SpecTasks == InitTasks /\ [][NextTasks]_vars

(* =========================== properties =============================== *)

\* two strings equal up to letter case
EqIgnoreCase(a, b) == StrLower(a) = StrLower(b)

\* the endpoint's task is a string naming one of the tasks of T in any letter case
TaskAmong(ep, T) ==
    ep.task.type = "str" /\ \E t \in T : EqIgnoreCase(ep.task.val, t)

\* the most recent call of the dispatcher is for a task of T
LastIs(T) == last # <<>> /\ TaskAmong(last[1].ep, T)

LastRes == last[1].res

\* answer a of an exchange is an HTTP response with status 200
Is200(a) == a.kind = "status" /\ a.code = 200

\* answer a is an HTTP response with another status
IsNon200(a) == a.kind = "status" /\ a.code # 200

\* C1: in every RANK dispatch the first request is the primary-shape POST;
\* when its answer is a non-200 status exactly one alternate-shape POST to
\* the same target follows it, and when its answer is 200 nothing follows;
\* an alternate-shape POST is never the first request.
C1_RerankFallback ==
    LastIs({RANK}) =>
        /\ Len(LastRes.sent) >= 1
        /\ LastRes.sent[1].shape = "rerank_primary"
        /\ \A i \in 1..Len(LastRes.sent) :
              LastRes.sent[i].shape = "rerank_alt" => i = 2
        /\ IsNon200(LastRes.received[1]) =>
              /\ Len(LastRes.sent) = 2
              /\ LastRes.sent[2].shape = "rerank_alt"
              /\ LastRes.sent[2].via = "post"
              /\ LastRes.sent[2].target = LastRes.sent[1].target
        /\ Is200(LastRes.received[1]) => Len(LastRes.sent) = 1

\* C1 witness: a RANK dispatch whose primary POST was answered 201 and
\* which then sent the alternate POST
C1_Witness ==
    /\ LastIs({RANK})
    /\ LastRes.received[1].kind = "status" /\ LastRes.received[1].code = 201
    /\ Len(LastRes.sent) = 2
    /\ LastRes.sent[2].shape = "rerank_alt"

\* C2: a RANK dispatch that returns makes at most two POSTs and returns
\* True exactly when one of them was answered with status 200.
C2_RerankOutcome ==
    LastIs({RANK}) =>
        /\ LastRes.kind # "raise"
        /\ Len(LastRes.received) <= 2
        /\ LastRes.kind = "return" =>
              (LastRes.value <=>
                  \E i \in 1..Len(LastRes.received) : Is200(LastRes.received[i]))

\* C2 witness: both attempts answered with a non-200 status, outcome False
C2_Witness ==
    /\ LastIs({RANK})
    /\ LastRes.kind = "return"
    /\ Len(LastRes.received) = 2
    /\ IsNon200(LastRes.received[1]) /\ IsNon200(LastRes.received[2])
    /\ LastRes.value = FALSE

\* the body of the answer carries a `data` array
HasDataArray(a) == a.body.json /\ a.body.has_data

\* the answer is an HTTP response whose body is a JSON document with
\* every listed element complete
WellFormed(a) ==
    /\ a.kind = "status"
    /\ a.code = 200 => a.body.json
    /\ \A i \in 1..Len(a.body.data) : a.body.data[i].has_embedding
    /\ \A i \in 1..Len(a.body.choices) : a.body.choices[i].has_payload

\* C3 as stated (on well-formed answers): an EMBED dispatch returns True
\* exactly when the status is 200 and the `data` array, when the body has
\* one, is non-empty.
C3_Original ==
    (LastIs({EMBED}) /\ LastRes.kind = "return"
        /\ WellFormed(LastRes.received[1])) =>
        (LastRes.value <=>
            /\ Is200(LastRes.received[1])
            /\ HasDataArray(LastRes.received[1]) =>
                  Len(LastRes.received[1].body.data) > 0)

\* C3 amended: an EMBED dispatch makes one POST and returns True exactly
\* when the status is 200, the body parses as JSON and, when `data` is
\* present and non-empty, its first element carries an `embedding`; a 200
\* JSON answer whose `data` is empty, or absent, yields True.
C3_EmbedOutcome ==
    LastIs({EMBED}) =>
        /\ Len(LastRes.sent) = 1
        /\ LastRes.kind # "raise"
        /\ LastRes.kind = "return" =>
              (LastRes.value <=>
                  /\ Is200(LastRes.received[1])
                  /\ LastRes.received[1].body.json
                  /\ (HasDataArray(LastRes.received[1])
                        /\ Len(LastRes.received[1].body.data) > 0) =>
                        LastRes.received[1].body.data[1].has_embedding)

\* C3 witness: status 200 with a present but empty `data`, outcome True
C3_Witness ==
    /\ LastIs({EMBED})
    /\ Is200(LastRes.received[1])
    /\ HasDataArray(LastRes.received[1])
    /\ LastRes.received[1].body.data = <<>>
    /\ LastRes.kind = "return" /\ LastRes.value = TRUE

TextTasks == {TEXT_GENERATION, TEXT_TO_TEXT_GENERATION}

\* the answer carries a non-error status
NonErrorStatus(a) == a.kind = "status" /\ a.code < 400

\* the body of the answer carries a `choices` list
HasChoicesList(a) == a.body.json /\ a.body.has_choices

\* C4 as stated (on well-formed answers): a text-generation dispatch
\* returns True exactly when the status is a non-error one and the choices
\* list, when the response has one, contains at least one choice.
C4_Original ==
    (LastIs(TextTasks) /\ LastRes.kind = "return"
        /\ WellFormed(LastRes.received[1])) =>
        (LastRes.value <=>
            /\ NonErrorStatus(LastRes.received[1])
            /\ HasChoicesList(LastRes.received[1]) =>
                  Len(LastRes.received[1].body.choices) > 0)

\* C4 amended: a text-generation dispatch makes one client call and returns
\* True exactly when the status is a non-error one, the body parses and,
\* when the choices list is non-empty, the text of its first choice can be
\* read; a non-error answer whose choices list is empty yields True.
C4_TextOutcome ==
    LastIs(TextTasks) =>
        /\ Len(LastRes.sent) = 1
        /\ LastRes.kind # "raise"
        /\ LastRes.kind = "return" =>
              (LastRes.value <=>
                  /\ NonErrorStatus(LastRes.received[1])
                  /\ LastRes.received[1].body.json
                  /\ (HasChoicesList(LastRes.received[1])
                        /\ Len(LastRes.received[1].body.choices) > 0) =>
                        LastRes.received[1].body.choices[1].has_payload)

\* C4 witness: a non-error answer with an empty choices list, outcome True
C4_Witness ==
    /\ LastIs(TextTasks)
    /\ NonErrorStatus(LastRes.received[1])
    /\ HasChoicesList(LastRes.received[1])
    /\ LastRes.received[1].body.choices = <<>>
    /\ LastRes.kind = "return" /\ LastRes.value = TRUE

\* C5: a dispatch for SPEECH_TO_TEXT, TEXT_TO_SPEECH or INFERENCE, written
\* in any letter case, sends no request and returns True.
C5_SkippedTasks ==
    LastIs({SPEECH_TO_TEXT, TEXT_TO_SPEECH, INFERENCE}) =>
        /\ LastRes.sent = <<>>
        /\ LastRes.received = <<>>
        /\ LastRes.kind = "return"
        /\ LastRes.value = TRUE

\* C5 witness: a dispatch for the lower-case tag `inference`
C5_Witness ==
    /\ LastIs({INFERENCE})
    /\ last[1].ep.task.val = StrLower(INFERENCE)
    /\ LastRes.kind = "return" /\ LastRes.value = TRUE

\* the endpoint's task is none of the known ones in any letter case
UnknownTask(ep) == ~ TaskAmong(ep, KnownTasks)

\* one step of the cycle at an endpoint with an unknown task
C6_Step ==
    /\ (pc = "dispatch" /\ UnknownTask(endpoints[idx])) =>
          /\ pc' = "pause"
          /\ exit' = exit
          /\ success_count' = success_count
          /\ last'[1].ep = endpoints[idx]
          /\ last'[1].res = Return(FALSE, <<>>, <<>>)
    /\ (pc = "pause" /\ UnknownTask(endpoints[idx]) /\ idx < Len(endpoints)
          /\ pc' # "done") =>
          /\ pc' = "dispatch"
          /\ idx' = idx + 1
          /\ endpoints' = endpoints

\* C6: the dispatch of an endpoint whose task is none of the known ones
\* (also a missing task) sends no request and returns False, the cycle goes
\* on to its pause, and unless the operator interrupts that pause the next
\* endpoint of the list is dispatched.
C6_UnknownTask == [][C6_Step]_vars

\* C6 witness: the first endpoint had an unknown task, nothing was sent for
\* it, and the cycle is about to dispatch the second endpoint
C6_Witness ==
    /\ pc = "dispatch" /\ idx = 2
    /\ UnknownTask(endpoints[1])
    /\ trace[1] = [op |-> "dispatch", i |-> 1, nsent |-> 0, ok |-> FALSE]

VlmTasks == {IMAGE_TEXT_TO_TEXT, OBJECT_DETECTION}

\* building or sending the request of call L raised an exception: a missing
\* task or model name, a transport error, a body that is not JSON, or an
\* error status met by the completions client
ExceptionRaised(L) ==
    \/ L.ep.task.type # "str"
    \/ TaskAmong(L.ep, VlmTasks) /\ L.ep.model_name.type # "str"
    \/ \E i \in 1..Len(L.res.received) : L.res.received[i].kind = "raise"
    \/ /\ TaskAmong(L.ep, {EMBED})
       /\ L.res.received # <<>>
       /\ Is200(L.res.received[1]) /\ ~ L.res.received[1].body.json
    \/ /\ TaskAmong(L.ep, TextTasks \cup VlmTasks)
       /\ L.res.received # <<>>
       /\ L.res.received[1].kind = "status"
       /\ (L.res.received[1].code >= 400 \/ ~ L.res.received[1].body.json)

\* the calls of the dispatcher made so far in this cycle
IsCall(e) == e.op \in {"dispatch", "interrupted", "raised"}

Calls == SelectSeq(trace, IsCall)

\* C7: an exception raised while building or sending the request of one
\* endpoint makes its dispatch return False and never leaves the dispatcher;
\* a cycle that reaches its end has dispatched every discovered endpoint,
\* those after a failing one included.
C7_ExceptionsAbsorbed ==
    /\ mode = "once" => exit # "crashed"
    /\ last # <<>> =>
          /\ LastRes.kind # "raise"
          /\ ExceptionRaised(last[1]) =>
                (LastRes.kind = "return" /\ LastRes.value = FALSE)
    /\ \A k \in 1..Len(trace) : trace[k].op # "raised"
    /\ ((pc = "interval" \/ exit = "returned") /\ endpoints # <<>>) =>
          \A i \in 1..Len(endpoints) :
              \E k \in 1..Len(trace) :
                  trace[k].op = "dispatch" /\ trace[k].i = i

\* C7 witness: the dispatch of the first endpoint raised (its task is
\* missing), it counted as a failure, and the second endpoint was dispatched
C7_Witness ==
    /\ Len(endpoints) >= 2
    /\ endpoints[1].task.type # "str"
    /\ Len(Calls) >= 2
    /\ Calls[1].op = "dispatch" /\ Calls[1].ok = FALSE
    /\ Calls[2].op = "dispatch" /\ Calls[2].i = 2

\* the listing of the current cycle's directory answer
Listing == svc[1].endpoints

DirectoryAnswered == svc # <<>> /\ svc[1].kind = "ok"

\* a record whose state is `running` or `loaded` in any letter case
ActiveRecord(r) ==
    /\ r.state.type = "str"
    /\ (EqIgnoreCase(r.state.val, s_running) \/ EqIgnoreCase(r.state.val, s_loaded))

\* C8 as stated: whenever the directory call succeeds the discovered list is
\* the subsequence of active records of the listing, in the listing's order.
C8_Original ==
    DirectoryAnswered => endpoints = SelectSeq(Listing, ActiveRecord)

\* C8 amended: when the directory call succeeds and every record of the
\* listing has a string state, the discovered list is exactly the
\* subsequence of its active records, in the listing's order; when some
\* record has no string state the discovered list is empty.
C8_ActiveSubsequence ==
    DirectoryAnswered =>
        IF \A i \in 1..Len(Listing) : Listing[i].state.type = "str"
        THEN endpoints = SelectSeq(Listing, ActiveRecord)
        ELSE endpoints = <<>>

\* C8 witness: a listing of three records with an inactive one in the
\* middle, discovered as its two active records
C8_Witness ==
    /\ DirectoryAnswered
    /\ Len(Listing) = 3
    /\ ActiveRecord(Listing[1]) /\ ~ ActiveRecord(Listing[2]) /\ ActiveRecord(Listing[3])
    /\ Listing[1] # Listing[3]
    /\ endpoints = <<Listing[1], Listing[3]>>

\* C9: when the directory call fails, discovery yields the empty list
\* without raising and the cycle dispatches nothing: run_once returns, and
\* run_continuous goes to its interval sleep (which the operator's
\* interrupt cuts short, and which a negative interval makes raise).
C9_DiscoveryFailure ==
    (svc # <<>> /\ svc[1].kind = "raise") =>
        /\ endpoints = <<>>
        /\ trace = <<>>
        /\ last = <<>>
        /\ summary = <<>>
        /\ mode = "once" => (pc = "done" /\ exit = "returned")
        /\ mode = "continuous" =>
              \/ pc = "interval" /\ exit = "running"
              \/ pc = "done" /\ exit = "shutdown"
              \/ interval < 0 /\ (pc = "error_interval" \/ pc = "done")

\* C9 witness: run_continuous in its interval sleep after a failed
\* directory call
C9_Witness ==
    /\ svc # <<>> /\ svc[1].kind = "raise"
    /\ mode = "continuous" /\ pc = "interval"

\* the number of calls so far that returned True
Successes == Cardinality({ k \in 1..Len(Calls) : Calls[k].op = "dispatch" /\ Calls[k].ok })

\* C10: in a run_once cycle the k-th call of the dispatcher is for the k-th
\* discovered descriptor, the success counter is the number of calls that
\* returned True, and the summary of a cycle over a non-empty list is
\* reported after one call per descriptor as that number over the length of
\* the list.
C10_CycleSummary ==
    mode = "once" =>
        /\ Len(Calls) <= Len(endpoints)
        /\ \A k \in 1..Len(Calls) : Calls[k].i = k
        /\ last # <<>> => last[1].ep = endpoints[Len(Calls)]
        /\ success_count = Successes
        /\ summary # <<>> =>
              /\ endpoints # <<>>
              /\ Len(Calls) = Len(endpoints)
              /\ summary[1].total = Len(endpoints)
              /\ summary[1].successes = Successes
        /\ (exit = "returned" /\ endpoints # <<>>) => summary # <<>>

\* C10 witness: run_once over three endpoints with outcomes True, False,
\* True reports 2/3
C10_Witness ==
    /\ mode = "once" /\ exit = "returned"
    /\ Len(Calls) = 3
    /\ Calls[1].ok /\ ~ Calls[2].ok /\ Calls[3].ok
    /\ summary = <<[successes |-> 2, total |-> 3]>>

(* ------------- transport exceptions ------------- *)

\* exchange i of the most recent call ended in a transport exception
TransportRaised(i) == LastRes.received[i].kind = "raise"

\* C14: a dispatch one of whose requests raised a transport exception
\* returns False, and the request that raised is the last one it sent; a
\* RANK dispatch whose primary POST raised sent that one request only, so
\* no alternate-shape POST.
C14_TransportException ==
    last # <<>> =>
        /\ \A i \in 1..Len(LastRes.received) :
              TransportRaised(i) =>
                  /\ LastRes.kind = "return"
                  /\ LastRes.value = FALSE
                  /\ i = Len(LastRes.sent)
        /\ (LastIs({RANK}) /\ TransportRaised(1)) =>
              /\ Len(LastRes.sent) = 1
              /\ LastRes.sent[1].shape = "rerank_primary"

\* C14 witness: a RANK dispatch whose primary POST raised and which
\* returned False after that single request
C14_Witness ==
    /\ LastIs({RANK})
    /\ TransportRaised(1)
    /\ Len(LastRes.sent) = 1
    /\ LastRes.kind = "return" /\ LastRes.value = FALSE

(* ------------- the text-generation request ------------- *)

\* C15: a text-generation dispatch sends one request; for a descriptor with
\* has_chat_template it carries `messages`, one entry of role user, and no
\* `prompt`; for one without it carries a `prompt` string of the prompt
\* corpus and no `messages`.
C15_TextRequestShape ==
    LastIs(TextTasks) =>
        /\ Len(LastRes.sent) = 1
        /\ LET q == LastRes.sent[1]
           IN  /\ ~ ({"messages", "prompt"} \subseteq q.fields)
               /\ IF last[1].ep.has_chat_template
                  THEN /\ "messages" \in q.fields
                       /\ "prompt" \notin q.fields
                       /\ Len(q.payload.messages) = 1
                       /\ q.payload.messages[1].role = "user"
                  ELSE /\ "prompt" \in q.fields
                       /\ "messages" \notin q.fields
                       /\ q.payload.prompt \in Range(TEXT_GENERATION_PROMPTS)

\* C15 witness: a chat-template endpoint was sent the last chat sample, and
\* a plain one (in another call) the last prompt sample
C15_Witness ==
    /\ LastIs(TextTasks)
    /\ last[1].ep.has_chat_template
    /\ LastRes.sent[1].payload.messages = CHAT_PROMPTS[Len(CHAT_PROMPTS)]

(* ------------- the vision-language request ------------- *)

\* s holds sub as a contiguous run of characters, letter case ignored
ContainsIgnoreCase(s, sub) ==
    \E i \in 1..(Len(s) - Len(sub) + 1) :
        EqIgnoreCase(SubSeq(s, i, i + Len(sub) - 1), sub)

\* C16: a vision-language dispatch (IMAGE_TEXT_TO_TEXT or OBJECT_DETECTION)
\* for a descriptor that carries a model name sends one request with a
\* single user message; when the name contains "parse" in any letter case
\* its content is the image part alone, otherwise the image part followed
\* by one text part whose prompt is one of the three fixed prompts.
C16_VlmContent ==
    (LastIs(VlmTasks) /\ last[1].ep.model_name.type = "str") =>
        /\ Len(LastRes.sent) = 1
        /\ LET msgs == LastRes.sent[1].payload.messages
           IN  /\ Len(msgs) = 1
               /\ msgs[1].role = "user"
               /\ msgs[1].content[1].type = "image_url"
               /\ IF ContainsIgnoreCase(last[1].ep.model_name.val, s_parse)
                  THEN Len(msgs[1].content) = 1
                  ELSE /\ Len(msgs[1].content) = 2
                       /\ msgs[1].content[2].type = "text"
                       /\ msgs[1].content[2].text \in Range(VLM_PROMPTS)
                       /\ Len(VLM_PROMPTS) = 3

\* C16 witness: a model name spelling "parse" in mixed case got the image
\* part alone
C16_Witness ==
    /\ LastIs(VlmTasks)
    /\ last[1].ep.model_name.type = "str"
    /\ ~ Contains(last[1].ep.model_name.val, s_parse)
    /\ ContainsIgnoreCase(last[1].ep.model_name.val, s_parse)
    /\ Len(LastRes.sent[1].payload.messages[1].content) = 1

(* ------------- pacing ------------- *)

\* the number of 2-second pauses taken so far in the cycle
PauseCount == Cardinality({ k \in 1..Len(trace) : trace[k].op = "pause" })

\* C18: a dispatch that is followed by anything in the cycle is followed by
\* a pause, and a cycle over n >= 1 descriptors that ran to its summary
\* line took n - 1 pauses.
C18_Original ==
    /\ \A k \in 1..(Len(trace) - 1) :
          trace[k].op = "dispatch" => trace[k + 1].op = "pause"
    /\ (summary # <<>> /\ Len(endpoints) >= 1) =>
          PauseCount = Len(endpoints) - 1

(* ------------- the operator's interrupt ------------- *)

\* the ways run_continuous ends on an interrupt
Stopped == {"shutdown", "escaped"}

\* endpoint i of the cycle's list has been dispatched to the end
Dispatched(i) == \E k \in 1..Len(trace) : trace[k].op = "dispatch" /\ trace[k].i = i

\* one of the exchanges of call L was cut by the interrupt
InterruptReceived(L) ==
    \E i \in 1..Len(L.res.received) : L.res.received[i].kind = "interrupt"

\* C12 as stated: when run_continuous has stopped on the signal, every
\* endpoint of the cycle after the one that was in progress has been
\* dispatched.
C12_Original ==
    (mode = "continuous" /\ exit \in Stopped) =>
        \A i \in 1..Len(endpoints) : i > idx => Dispatched(i)

\* one step of run_continuous around the signal
C12_Step ==
    mode = "continuous" =>
        /\ exit \notin Stopped
        /\ (pc = "dispatch" /\ InterruptReceived(last'[1])) =>
              /\ pc' = "done" /\ exit' = "shutdown"
              /\ trace'[Len(trace')].op = "interrupted"
        /\ (pc = "discover" /\ svc'[1].kind = "interrupt") =>
              /\ pc' = "done" /\ exit' = "shutdown"
        /\ exit' \in Stopped =>
              /\ pc' = "done"
              /\ endpoints' = endpoints /\ idx' = idx
              /\ success_count' = success_count
              /\ summary' = summary
              /\ \A k \in 1..Len(trace') :
                    trace'[k].op \in {"dispatch", "pause"} =>
                        k <= Len(trace) /\ trace[k] = trace'[k]

\* C12 (amended): the signal ends the loop in the step that receives it
\* (discovery, a dispatch, a pause or an interval sleep): the call in
\* progress is abandoned, no endpoint is dispatched and no pause taken
\* after it, the cycle writes no summary, and once stopped run_continuous
\* takes no further step, so no new discovery.
C12_InterruptStops == [][C12_Step]_vars

\* C12 witness: the signal cut the dispatch of the first of several
\* endpoints and the loop is down with the others never dispatched
C12_Witness ==
    /\ mode = "continuous" /\ pc = "done" /\ exit = "shutdown"
    /\ Len(endpoints) >= 2 /\ idx = 1
    /\ trace # <<>> /\ trace[Len(trace)].op = "interrupted"
    /\ ~ Dispatched(2)

(* ------------- errors escaping a cycle ------------- *)

\* C11 as stated: an error escaping a cycle of run_continuous never ends
\* the loop; the handler is left by its interval sleep towards the next
\* discovery (or by the operator's interrupt), never by an exception.
C11_Original ==
    mode = "continuous" =>
        /\ exit # "crashed"
        /\ pc = "done" => exit \in Stopped

\* C20 as stated: wherever the interrupt arrives in run_continuous, the
\* loop ends on its shutdown path; the interrupt never leaves
\* run_continuous as an exception.
C20_Original ==
    (mode = "continuous" /\ exit \in Stopped) => exit = "shutdown"

(* ------------- what stops continuous mode ------------- *)

\* C13 as stated: run_continuous ends only on the operator's interrupt,
\* and unless an interrupt arrives or a sleep call fails to return, a new
\* cycle starts with discovery again and again.
C13_Original ==
    mode = "continuous" =>
        /\ [](pc = "done" => exit \in Stopped)
        /\ \/ []<>(pc = "discover")
           \/ <>(exit \in Stopped)
           \/ <>(pc = "error_interval")

\* the progress half of C13, which holds: with an interval that time.sleep
\* accepts, discovery recurs for ever unless the operator interrupts
C13_Progress ==
    (mode = "continuous" /\ interval >= 0) =>
        ([]<>(pc = "discover") \/ <>(exit \in Stopped))

(* ------------- run_continuous as a loop of run_once ------------- *)

\* the interval sleeps among the steps t
SleepCount(t) == Cardinality({ k \in 1..Len(t) : t[k].op = "sleep" })

\* C17: on the same directory outcome and the same request answers, the
\* steps of one iteration of run_continuous (discovery call, dispatches
\* with their outcomes, 2-second pauses, success/total counts) are those
\* of one run_once call followed by exactly one interval sleep, also when
\* the discovered list is empty.
C17_LoopOfRunOnce ==
    twin # <<>> =>
        /\ trace = Append(twin, Step("sleep", 0, interval, TRUE))
        /\ SleepCount(trace) = 1
        /\ SleepCount(twin) = 0

\* C17 witness: the directory listed only a stopped endpoint, run_once
\* returned after discovery and the iteration still slept its interval
C17_Witness ==
    /\ mode = "equiv"
    /\ svc # <<>> /\ svc[1].kind = "ok" /\ svc[1].endpoints # <<>>
    /\ endpoints = <<>>
    /\ twin = <<Step("discover", 0, 0, TRUE)>>
    /\ Len(trace) = 2

(* ------------- nothing carried from cycle to cycle ------------- *)

\* the names of the active records of the current listing
ActiveNames == { Listing[j].name : j \in { i \in 1..Len(Listing) : ActiveRecord(Listing[i]) } }

\* C19: with the loop's locals kept from one cycle to the next, the list
\* of a cycle is what its own discovery call found (the active records of
\* its listing, nothing after a failed call), every endpoint the cycle
\* calls the dispatcher for is an active record of that listing, the
\* success counter is zero at the first dispatch and counts the successes
\* of this cycle only, and the descriptor handed to the dispatcher is the
\* list's entry, a record of the listing unchanged.
C19_NoCarryOver ==
    /\ DirectoryAnswered => endpoints = SelectSeq(Listing, ActiveRecord)
    /\ (svc # <<>> /\ svc[1].kind = "raise") => endpoints = <<>>
    /\ \A k \in 1..Len(trace) :
          trace[k].op # "pause" =>
              /\ DirectoryAnswered
              /\ endpoints[trace[k].i].name \in ActiveNames
    /\ (pc = "dispatch" /\ idx = 1) => success_count = 0
    /\ pc \in {"dispatch", "pause"} => success_count = Successes
    /\ summary # <<>> =>
          /\ summary[1].successes = Successes
          /\ summary[1].total = Len(SelectSeq(Listing, ActiveRecord))
    /\ last # <<>> =>
          /\ Calls # <<>>
          /\ last[1].ep = endpoints[Calls[Len(Calls)].i]
          /\ \E j \in 1..Len(Listing) : Listing[j] = last[1].ep

\* C19 witness: "rank" was dispatched in the cycle before, the listing of
\* this cycle no longer holds it as an active record, and this cycle ran
\* to its summary with a dispatch of its own
C19_Witness ==
    /\ "rank" \in prev
    /\ DirectoryAnswered
    /\ "rank" \notin ActiveNames
    /\ summary # <<>>
    /\ \E k \in 1..Len(trace) : trace[k].op = "dispatch"

(* ------------- how many requests a dispatch sends ------------- *)

RECURSIVE SentIn(_)
\* the requests sent by the dispatcher calls among the events t
SentIn(t) == IF t = <<>> THEN 0 ELSE t[1].nsent + SentIn(Tail(t))

\* C21: one call of the dispatcher sends no request for SPEECH_TO_TEXT,
\* TEXT_TO_SPEECH, INFERENCE and for a task it does not know (a missing
\* one included), at most one for the text, EMBED and vision-language
\* tasks, at most two for RANK, whatever the answers; the calls of a cycle
\* over n endpoints send at most 2n requests together.
C21_RequestBounds ==
    /\ last # <<>> =>
          /\ (TaskAmong(last[1].ep, SkippedTasks) \/ UnknownTask(last[1].ep)) =>
                Len(LastRes.sent) = 0
          /\ TaskAmong(last[1].ep, TextTasks \cup {EMBED} \cup VlmTasks) =>
                Len(LastRes.sent) <= 1
          /\ TaskAmong(last[1].ep, {RANK}) => Len(LastRes.sent) <= 2
          /\ Len(LastRes.sent) = Len(LastRes.received)
    /\ \A k \in 1..Len(Calls) : Calls[k].nsent <= 2
    /\ SentIn(Calls) <= 2 * Len(Calls)
    /\ Len(Calls) <= Len(endpoints)
    /\ SentIn(Calls) <= 2 * Len(endpoints)

\* C21 witness: a cycle over an EMBED and a RANK endpoint ran to its
\* summary, the first dispatch having sent one request and the second two
C21_Witness ==
    /\ summary # <<>>
    /\ Len(endpoints) = 2
    /\ TaskAmong(endpoints[1], {EMBED}) /\ TaskAmong(endpoints[2], {RANK})
    /\ Len(Calls) = 2
    /\ Calls[1].nsent = 1 /\ Calls[2].nsent = 2
    /\ SentIn(Calls) = 3

(* ------------- discovery, all or nothing ------------- *)

\* some record of the listing has no state string, so that ep.state.lower()
\* raises on it
BadRecord == \E i \in 1..Len(Listing) : Listing[i].state.type # "str"

\* C22: when the directory call succeeds but one record of its listing
\* cannot be converted, the discovered list is empty wherever that record
\* stands and whatever active records stand before it, the discovery call
\* itself returns (run_once returns, run_continuous goes to its interval
\* sleep), and the cycle calls the dispatcher for no endpoint and reports
\* no summary.
C22_AllOrNothing ==
    (DirectoryAnswered /\ BadRecord) =>
        /\ endpoints = <<>>
        /\ discover_endpoints(svc[1]) = [kind |-> "return", value |-> <<>>]
        /\ trace = <<>> /\ last = <<>> /\ summary = <<>>
        /\ pc \notin {"dispatch", "pause"}
        /\ mode = "once" => (pc = "done" /\ exit = "returned")
        /\ exit # "crashed" \/ (mode = "continuous" /\ interval < 0)

\* C22 witness: two active records came before the record without a state,
\* and the cycle is over with nothing discovered
C22_Witness ==
    /\ DirectoryAnswered
    /\ Len(Listing) = 3
    /\ ActiveRecord(Listing[1]) /\ ActiveRecord(Listing[2])
    /\ Listing[3].state.type # "str"
    /\ endpoints = <<>>
    /\ mode = "once" /\ exit = "returned"

====
